---- MODULE Spec2Model ----
(***************************************************************************)
(* Model of parse.py: the DKB settlement-PDF to Ghostfolio converter.      *)
(*                                                                         *)
(* A document is a file name plus the text of its first page.  The text    *)
(* is represented by what each of the five regular expressions of          *)
(* parse.py would capture from it (None when the expression does not       *)
(* match).  A run of generate_dkb_trade_data is the sequence               *)
(*   StartRun ; ProcessNextFile* ; WriteOutput                             *)
(* and an uncaught exception ends the run in pc = "crashed" without the    *)
(* output file being written.                                              *)
(***************************************************************************)
EXTENDS Integers, Sequences, FiniteSets, TLC

None == "None"

\* ---------------------------------------------------------------- bounds
MaxDocs == 2        \* files in the input directory
MaxRuns == 2        \* runs of the program in one behaviour
FracDigits == 2     \* longest fractional capture; amounts are kept in units of 10^-FracDigits

RECURSIVE Pow10(_)
Pow10(n) == IF n = 0 THEN 1 ELSE 10 * Pow10(n - 1)

Scale == Pow10(FracDigits)

Range(s) == {s[i] : i \in 1..Len(s)}

\* ------------------------------------------------ regular expressions
\* A capture is a record with match = TRUE and the captured groups, or NoMatch
\* when re.search returns None.
NoMatch == [match |-> FALSE]

\* isin_regex: one of seven country prefixes followed by ten word characters.
\* The text carries at most one twelve-character code [cc, rest].
IsinPrefixes == {"IE", "US", "CA", "CH", "GB", "AU", "KY"}

isin_regex(text) ==
    IF text.isin.match /\ text.isin.cc \in IsinPrefixes THEN text.isin ELSE NoMatch

\* date_time_regex: "Schlusstag/-Zeit DD.MM.YYYY HH:MM:SS"; the capture is
\* the six digit groups [D, M, Y, h, m, s], not yet validated.
date_time_regex(text) == text.dateTime

\* date_regex: "Schlusstag DD.MM.YYYY"; the capture is [D, M, Y].
\* It cannot match inside "Schlusstag/-Zeit ...", so the two fields are independent.
date_regex(text) == text.dateOnly

\* pieces_regex: "Stück <int>" with an optional ",<frac>"; the capture is
\* [int, frac], frac being the sequence of fractional digits, <<>> for group(2) = None.
pieces_regex(text) == text.pieces

\* price_regex: "Ausführungskurs <int>,<frac> EUR"; the fraction and the
\* trailing EUR literal are mandatory.
price_regex(text) ==
    IF text.price.match /\ text.price.frac # <<>> /\ text.price.unit = "EUR"
    THEN text.price ELSE NoMatch

ignoredsymbols ==
    { <<"CH", "0108503795">>, <<"US", "3682872078">>, <<"GB", "00B03MLX29">>,
      <<"US", "36467W1099">>, <<"AU", "000000FGR3">>, <<"CA", "04016J1021">>,
      <<"IE", "00BYMS5W68">>, <<"CA", "4063721027">>, <<"KY", "G9830T1067">> }

\* ------------------------------------------------------- datetime
IsLeap(y) == (y % 4 = 0 /\ y % 100 # 0) \/ y % 400 = 0

DaysInMonth(m, y) ==
    IF m = 2 THEN (IF IsLeap(y) THEN 29 ELSE 28)
    ELSE IF m \in {4, 6, 9, 11} THEN 30 ELSE 31

ValueError == [ok |-> FALSE]

\* strptime accepting any digits that match the pattern.
strptime_date_unchecked(c) ==
    [ok |-> TRUE, Y |-> c.Y, M |-> c.M, D |-> c.D, h |-> 0, m |-> 0, s |-> 0]

\* datetime.strptime(s, "%d.%m.%Y"): the datetime at midnight, or ValueError
\* when the digits are not a calendar date.
strptime_date(c) ==
    IF c.Y >= 1 /\ c.M \in 1..12 /\ c.D >= 1 /\ c.D <= DaysInMonth(c.M, c.Y)
    THEN [ok |-> TRUE, Y |-> c.Y, M |-> c.M, D |-> c.D, h |-> 0, m |-> 0, s |-> 0]
    ELSE ValueError

\* datetime.strptime(s, "%d.%m.%Y %H:%M:%S")
strptime_datetime(c) ==
    IF strptime_date(c).ok /\ c.h \in 0..23 /\ c.m \in 0..59 /\ c.s \in 0..59
    THEN [ok |-> TRUE, Y |-> c.Y, M |-> c.M, D |-> c.D, h |-> c.h, m |-> c.m, s |-> c.s]
    ELSE ValueError

\* datetime.isoformat(): "YYYY-MM-DDTHH:MM:SS", kept as the tuple of its six
\* zero-padded fields in the order they are written.
isoformat(dt) == <<dt.Y, dt.M, dt.D, dt.h, dt.m, dt.s>>

\* ------------------------------------------------------- numbers
\* float("0.<digits>") in units of 10^-FracDigits: the digits are a decimal
\* fraction, so "5" and "50" are the same amount.
RECURSIVE FractionValue(_, _)
FractionValue(digits, pos) ==
    IF pos > Len(digits) THEN 0
    ELSE digits[pos] * Pow10(FracDigits - pos) + FractionValue(digits, pos + 1)

\* float(group(1)) + (float("0." + group(2)) if group(2) else 0)
parse_decimal(cap) ==
    cap.int * Scale + (IF cap.frac # <<>> THEN FractionValue(cap.frac, 1) ELSE 0)

\* ------------------------------------------------- parse_trade_data
\* Lines 72-80, with the combined field and the date-only field swapped in
\* the if/elif.
select_datetime_date_first(text) ==
    IF date_regex(text).match THEN strptime_date(date_regex(text))
    ELSE IF date_time_regex(text).match THEN strptime_datetime(date_time_regex(text))
    ELSE [ok |-> FALSE, missing |-> TRUE]

\* Lines 72-80: the combined date+time field first, the date-only field as the
\* fallback; [ok |-> FALSE, missing |-> TRUE] when neither matches, ValueError
\* when strptime rejects the capture.
select_datetime(text) ==
    IF date_time_regex(text).match THEN strptime_datetime(date_time_regex(text))
    ELSE IF date_regex(text).match THEN strptime_date(date_regex(text))
    ELSE [ok |-> FALSE, missing |-> TRUE]

\* Lines 85-95: the dict that parse_trade_data returns.
trade_dict(isin, parsed_datetime, parsed_pieces, parsed_price) ==
    [accountId  |-> "e2a4628f-1146-4ab8-b559-6058c7657bbb",
     comment    |-> "",
     fee        |-> 0,
     quantity   |-> parsed_pieces,
     unitPrice  |-> parsed_price,
     currency   |-> "EUR",
     dataSource |-> "MANUAL",
     date       |-> isoformat(parsed_datetime),
     symbol     |-> <<isin.cc, isin.rest>>]

\* parse_trade_data with the quantity and the price read before the
\* identifier and the date are checked.
parse_trade_data_numbers_first(text) ==
    LET isin_match == isin_regex(text)
        parsed_datetime == select_datetime(text)
        pieces == pieces_regex(text)
        price == price_regex(text)
    IN
    IF ~pieces.match THEN [kind |-> "raise", exc |-> "AttributeError"]
    ELSE IF ~price.match THEN [kind |-> "raise", exc |-> "AttributeError"]
    ELSE IF ~isin_match.match THEN [kind |-> "None", reason |-> "invalid isin"]
    ELSE IF parsed_datetime = [ok |-> FALSE, missing |-> TRUE]
    THEN [kind |-> "None", reason |-> "missing date"]
    ELSE IF ~parsed_datetime.ok THEN [kind |-> "raise", exc |-> "ValueError"]
    ELSE [kind |-> "trade",
          trade |-> trade_dict(isin_match, parsed_datetime,
                               parse_decimal(pieces), parse_decimal(price))]

\* Result: [kind |-> "None", reason] for an early return None,
\* [kind |-> "raise", exc] for an exception, [kind |-> "trade", trade].
parse_trade_data(text) ==
    LET isin_match == isin_regex(text)
        parsed_datetime == select_datetime(text)
        pieces == pieces_regex(text)
        price == price_regex(text)
    IN
    IF ~isin_match.match THEN [kind |-> "None", reason |-> "invalid isin"]
    ELSE IF parsed_datetime = [ok |-> FALSE, missing |-> TRUE]
    THEN [kind |-> "None", reason |-> "missing date"]
    ELSE IF ~parsed_datetime.ok THEN [kind |-> "raise", exc |-> "ValueError"]
    \* pieces.group(1) and price.group(1) on None
    ELSE IF ~pieces.match THEN [kind |-> "raise", exc |-> "AttributeError"]
    ELSE IF ~price.match THEN [kind |-> "raise", exc |-> "AttributeError"]
    ELSE [kind |-> "trade",
          trade |-> trade_dict(isin_match, parsed_datetime,
                               parse_decimal(pieces), parse_decimal(price))]

\* --------------------------------------------- generate_dkb_trade_data
\* A file name is its sequence of tokens, e.g.
\* <<"Kauf_", "Wertpapierabrechnung", "1", ".pdf">>.
endswith_pdf(name) == name[Len(name)] = ".pdf"

\* Lines 32-38: "BUY", "SELL", or None for a PDF that is not a settlement.
trade_type_of(name) ==
    IF name[1] = "Kauf_" /\ "Wertpapierabrechnung" \in Range(name) THEN "BUY"
    ELSE IF name[1] = "Verkauf_" /\ "Wertpapierabrechnung" \in Range(name) THEN "SELL"
    ELSE None

\* Line 47: trade["type"] = trade_type
with_type(trade, trade_type) ==
    [k \in DOMAIN trade \cup {"type"} |-> IF k = "type" THEN trade_type ELSE trade[k]]

\* The duplicate scan keyed on date and symbol instead of date alone.
is_duplicate_date_and_symbol(activities, trade) ==
    \E i \in 1..Len(activities) :
        activities[i].date = trade.date /\ activities[i].symbol = trade.symbol

\* The duplicate scan looking at the most recent record only.
is_duplicate_last_only(activities, trade) ==
    /\ activities # <<>>
    /\ activities[Len(activities)].date = trade.date

\* Lines 54-57: the scan of data["activities"] for a record with the same date.
is_duplicate(activities, trade) ==
    \E i \in 1..Len(activities) : activities[i].date = trade.date

\* Lines 54-60 overwriting the record found with the same date.
integrate_replace(activities, trade) ==
    IF is_duplicate(activities, trade)
    THEN [activities |-> [i \in 1..Len(activities) |->
                            IF activities[i].date = trade.date THEN trade
                            ELSE activities[i]],
          log |-> "duplicate"]
    ELSE [activities |-> Append(activities, trade), log |-> "Added"]

\* Lines 54-60 inserting a new record at the front.
integrate_prepend(activities, trade) ==
    IF is_duplicate(activities, trade)
    THEN [activities |-> activities, log |-> "duplicate"]
    ELSE [activities |-> <<trade>> \o activities, log |-> "Added"]

\* Lines 54-60: the for/else that skips a duplicate or appends the trade.
integrate(activities, trade) ==
    IF is_duplicate(activities, trade)
    THEN [activities |-> activities, log |-> "duplicate"]
    ELSE [activities |-> Append(activities, trade), log |-> "Added"]

\* Lines 30-60 with `break` in place of `continue` for an ignored symbol.
process_file_break_on_ignored(activities, file) ==
    IF ~endswith_pdf(file.name)
    THEN [activities |-> activities, ctl |-> "continue", log |-> "nothing"]
    ELSE IF trade_type_of(file.name) = None
    THEN [activities |-> activities, ctl |-> "continue", log |-> "Skipping"]
    ELSE
    LET res == parse_trade_data(file.text) IN
    IF res.kind = "raise"
    THEN [activities |-> activities, ctl |-> "raise", log |-> res.exc]
    ELSE IF res.kind = "None"
    THEN [activities |-> activities, ctl |-> "continue", log |-> res.reason]
    ELSE
    LET trade == with_type(res.trade, trade_type_of(file.name)) IN
    IF trade.symbol \in ignoredsymbols
    THEN [activities |-> activities, ctl |-> "break", log |-> "ignored symbol"]
    ELSE [activities |-> integrate(activities, trade).activities,
          ctl |-> "continue", log |-> integrate(activities, trade).log]

\* Lines 30-60: one iteration of the loop over os.listdir.  The result is the
\* activities list after the iteration, how the iteration ended ("continue",
\* or "raise" when an exception leaves the function) and the line printed.
process_file(activities, file) ==
    IF ~endswith_pdf(file.name)
    THEN [activities |-> activities, ctl |-> "continue", log |-> "nothing"]
    ELSE IF trade_type_of(file.name) = None
    THEN [activities |-> activities, ctl |-> "continue", log |-> "Skipping"]
    ELSE
    LET res == parse_trade_data(file.text) IN
    IF res.kind = "raise"
    THEN [activities |-> activities, ctl |-> "raise", log |-> res.exc]
    ELSE IF res.kind = "None"
    THEN [activities |-> activities, ctl |-> "continue", log |-> res.reason]
    ELSE
    LET trade == with_type(res.trade, trade_type_of(file.name)) IN
    IF trade.symbol \in ignoredsymbols
    THEN [activities |-> activities, ctl |-> "continue", log |-> "ignored symbol"]
    ELSE [activities |-> integrate(activities, trade).activities,
          ctl |-> "continue", log |-> integrate(activities, trade).log]

\* Lines 29-60 for a given listing order: the activities when the loop ends.
RECURSIVE run_in_order(_, _)
run_in_order(activities, order) ==
    IF order = <<>> THEN activities
    ELSE LET r == process_file(activities, Head(order)) IN
         IF r.ctl = "continue" THEN run_in_order(r.activities, Tail(order))
         ELSE r.activities

\* ------------------------------------------------------ sample inputs
Isin(cc, rest) == [match |-> TRUE, cc |-> cc, rest |-> rest]
DateOnly(d, m, y) == [match |-> TRUE, D |-> d, M |-> m, Y |-> y]
DateTime(d, m, y, hh, mm, ss) ==
    [match |-> TRUE, D |-> d, M |-> m, Y |-> y, h |-> hh, m |-> mm, s |-> ss]
Amount(int, frac, unit) == [match |-> TRUE, int |-> int, frac |-> frac, unit |-> unit]
Text(isin, dateTime, dateOnly, pieces, price) ==
    [isin |-> isin, dateTime |-> dateTime, dateOnly |-> dateOnly,
     pieces |-> pieces, price |-> price]
File(name, text) == [name |-> name, text |-> text]

Kauf(id) == <<"Kauf_", "Wertpapierabrechnung", id, ".pdf">>
Verkauf(id) == <<"Verkauf_", "Wertpapierabrechnung", id, ".pdf">>

Apple == Isin("US", "0378331005")
World == Isin("IE", "00B4L5Y983")
German == Isin("DE", "000BASF111")      \* prefix outside isin_regex
Ignored == Isin("US", "3682872078")     \* member of ignoredsymbols
Noon15 == DateTime(15, 3, 2024, 10, 30, 0)
Midnight15 == DateTime(15, 3, 2024, 0, 0, 0)
Noon16 == DateTime(16, 3, 2024, 10, 30, 0)
Day15 == DateOnly(15, 3, 2024)
Day16 == DateOnly(16, 3, 2024)
Feb31 == DateOnly(31, 2, 2024)          \* matches date_regex, not a calendar date
Pieces(int, frac) == Amount(int, frac, "")
Eur(int, frac) == Amount(int, frac, "EUR")

\* The documents the input directory is drawn from: well-formed purchases and
\* sales, pairs that share a timestamp, and one document per way of being
\* skipped or of failing.
SampleFiles ==
    { File(Kauf("a"), Text(Apple, Noon15, NoMatch, Pieces(10, <<5>>), Eur(123, <<4, 5>>))),
      File(Verkauf("b"), Text(World, Noon15, NoMatch, Pieces(3, <<>>), Eur(99, <<5>>))),
      File(Kauf("c"), Text(Apple, NoMatch, Day15, Pieces(3, <<5, 0>>), Eur(50, <<0>>))),
      File(Verkauf("d"), Text(World, Midnight15, Day16, Pieces(1, <<>>), Eur(7, <<0, 5>>))),
      File(Kauf("e"), Text(Ignored, Noon16, NoMatch, Pieces(2, <<>>), Eur(10, <<0>>))),
      File(Kauf("f"), Text(German, Noon16, NoMatch, NoMatch, NoMatch)),
      File(Kauf("g"), Text(Apple, NoMatch, NoMatch, NoMatch, Eur(10, <<0>>))),
      File(Kauf("h"), Text(Apple, Noon16, NoMatch, NoMatch, Eur(10, <<0>>))),
      File(Verkauf("i"), Text(World, Noon16, NoMatch, Pieces(2, <<>>), Amount(10, <<0>>, "USD"))),
      File(Kauf("j"), Text(Apple, NoMatch, Day15, Pieces(0, <<>>), Eur(10, <<0>>))),
      File(Kauf("k"), Text(Apple, NoMatch, Feb31, Pieces(2, <<>>), Eur(10, <<0>>))),
      File(<<"Kauf_", "Depotauszug", "l", ".pdf">>,
           Text(Apple, Noon16, NoMatch, Pieces(2, <<>>), Eur(10, <<0>>))),
      File(<<"Kauf_", "Wertpapierabrechnung", "m", ".txt">>,
           Text(Apple, Noon16, NoMatch, Pieces(2, <<>>), Eur(10, <<0>>))),
      File(Kauf("n"), Text(Ignored, Noon16, NoMatch, NoMatch, Eur(10, <<0>>))) }

Directories == {d \in SUBSET SampleFiles : Cardinality(d) <= MaxDocs}

\* ------------------------------------------------------------- state
VARIABLES
    directory,      \* the files of input_directory
    output_file,    \* [exists, data]: the JSON file at output_file
    merge,          \* the --merge flag of the current run
    data,           \* the dict being filled: [activities |-> sequence of trades]
    seen,           \* the files os.listdir has yielded so far in this run, in order
    log,            \* the line printed by the latest loop iteration
    pc,             \* "idle", "loop", "write", "done", "crashed"
    runs            \* runs started so far

vars == <<directory, output_file, merge, data, seen, log, pc, runs>>

Init ==
    /\ directory \in Directories
    /\ output_file = [exists |-> FALSE, data |-> [activities |-> <<>>]]
    /\ merge = FALSE
    /\ data = [activities |-> <<>>]
    /\ seen = <<>>
    /\ log = "nothing"
    /\ pc = "idle"
    /\ runs = 0

\* Lines 22-29: a new process loads or initialises data and lists the directory.
\* json.load of what json.dump wrote returns the same strings, ints and floats.
StartRun(m) ==
    /\ pc \in {"idle", "done", "crashed"}
    /\ runs < MaxRuns
    /\ merge' = m
    /\ data' = IF m /\ output_file.exists THEN output_file.data
               ELSE [activities |-> <<>>]
    /\ seen' = <<>>
    /\ log' = "nothing"
    /\ pc' = IF directory = {} THEN "write" ELSE "loop"
    /\ runs' = runs + 1
    /\ UNCHANGED <<directory, output_file>>

\* Lines 29-60: the next file of os.listdir, in whatever order it yields them.
ProcessNextFile ==
    /\ pc = "loop"
    /\ \E file \in directory \ Range(seen) :
         LET r == process_file(data.activities, file) IN
         /\ data' = [data EXCEPT !.activities = r.activities]
         /\ seen' = Append(seen, file)
         /\ log' = r.log
         /\ pc' = IF r.ctl = "raise" THEN "crashed"
                  ELSE IF r.ctl = "continue" /\ Range(seen') # directory THEN "loop"
                  ELSE "write"
    /\ UNCHANGED <<directory, output_file, merge, runs>>

\* Lines 62-63: json.dump(data) over the whole output file.
WriteOutput ==
    /\ pc = "write"
    /\ output_file' = [exists |-> TRUE, data |-> data]
    /\ pc' = "done"
    /\ UNCHANGED <<directory, merge, data, seen, log, runs>>

\* Between two runs the user adds a document to the directory or removes one.
\* The process of the previous run has exited: nothing of its memory is left.
ChangeDirectory ==
    /\ pc \in {"idle", "done", "crashed"}
    /\ runs \in 1..(MaxRuns - 1)
    /\ \E file \in SampleFiles :
         /\ directory' = IF file \in directory THEN directory \ {file}
                         ELSE directory \cup {file}
         /\ Cardinality(directory') <= MaxDocs
    /\ merge' = FALSE
    /\ data' = [activities |-> <<>>]
    /\ seen' = <<>>
    /\ log' = "nothing"
    /\ pc' = "idle"
    /\ UNCHANGED <<output_file, runs>>

NextSameDir ==
    \/ \E m \in BOOLEAN : StartRun(m)
    \/ ProcessNextFile
    \/ WriteOutput

Next ==
    \/ \E m \in BOOLEAN : StartRun(m)
    \/ ProcessNextFile
    \/ WriteOutput
    \/ ChangeDirectory

Spec == Init /\ [][Next]_vars

\* Repeated runs over an unchanged input directory.
SpecSameDir == Init /\ [][NextSameDir]_vars

TypeOK ==
    /\ directory \in Directories
    /\ pc \in {"idle", "loop", "write", "done", "crashed"}
    /\ runs \in 0..MaxRuns
    /\ pc \in {"loop", "write"} => Range(seen) \subseteq directory

\* ============================================================ properties
Last(q) == q[Len(q)]

Dates(activities) == {activities[i].date : i \in 1..Len(activities)}

\* The collection the current run started from (the output file is not
\* rewritten before the run ends).
StartCollection ==
    IF merge /\ output_file.exists THEN output_file.data.activities ELSE <<>>

InRun == pc \in {"loop", "write", "crashed"}

\* A settlement document by its file name.
IsTradeFile(file) == endswith_pdf(file.name) /\ trade_type_of(file.name) # None

\* A document that reaches the duplicate check, and the record it yields.
IsCandidate(file) ==
    /\ IsTradeFile(file)
    /\ parse_trade_data(file.text).kind = "trade"
    /\ parse_trade_data(file.text).trade.symbol \notin ignoredsymbols

TradeOf(file) == with_type(parse_trade_data(file.text).trade, trade_type_of(file.name))

\* The loop has just handled a file: it is Last(seen').
Handled == pc = "loop" /\ seen' # seen

\* The four extraction failures: a field whose pattern has no match.
ExtractionFails(text) ==
    \/ ~isin_regex(text).match
    \/ ~date_time_regex(text).match /\ ~date_regex(text).match
    \/ ~pieces_regex(text).match
    \/ ~price_regex(text).match

\* C1: a document whose extraction fails (identifier, date, quantity or price
\* without a match) is skipped alone: the loop goes on, the records
\* accumulated so far stay, and the run is not aborted.
C1_FailureIsLocal ==
    [][ (Handled /\ IsTradeFile(Last(seen')) /\ ExtractionFails(Last(seen').text))
        => (pc' \in {"loop", "write"} /\ data' = data) ]_vars

NoTwoSameDate(activities) ==
    \A i, j \in 1..Len(activities) :
        activities[i].date = activities[j].date => i = j

\* C2: in every state the collection in memory and the collection in the
\* output file hold no two records with the same date.
C2_NoTwoRecordsShareDate ==
    /\ NoTwoSameDate(data.activities)
    /\ NoTwoSameDate(output_file.data.activities)

\* A merge run appended to a loaded collection and then met a duplicate.
C2_Witness ==
    /\ InRun /\ merge
    /\ StartCollection # <<>>
    /\ Len(data.activities) > Len(StartCollection)
    /\ log = "duplicate"

HoldersOf(date) == {k \in 1..Len(data.activities) : data.activities[k].date = date}

FirstCandidateWith(date) ==
    CHOOSE i \in 1..Len(seen) :
        /\ IsCandidate(seen[i]) /\ TradeOf(seen[i]).date = date
        /\ \A k \in 1..(i - 1) : ~(IsCandidate(seen[k]) /\ TradeOf(seen[k]).date = date)

\* C3: for every document that reached the duplicate check, the collection
\* holds exactly one record with its date, and that record is the one met
\* first: the loaded record with that date, or else the record of the first
\* document of this run with that date; later documents with the date, of
\* whatever identifier, type, quantity or price, leave it as it is.
C3_FirstEncounteredSurvives ==
    InRun =>
      \A j \in 1..Len(seen) :
        IsCandidate(seen[j]) =>
          LET date == TradeOf(seen[j]).date
              loaded == {i \in 1..Len(StartCollection) : StartCollection[i].date = date}
          IN /\ Cardinality(HoldersOf(date)) = 1
             /\ \A k \in HoldersOf(date) :
                  data.activities[k] =
                    IF loaded # {} THEN StartCollection[CHOOSE i \in loaded : TRUE]
                    ELSE TradeOf(seen[FirstCandidateWith(date)])

\* Two documents with the same date and different identifier, type, quantity
\* and price have been handled; the second was the duplicate.
C3_Witness ==
    /\ InRun /\ Len(seen) = 2 /\ log = "duplicate"
    /\ IsCandidate(seen[1]) /\ IsCandidate(seen[2])
    /\ TradeOf(seen[1]).date = TradeOf(seen[2]).date
    /\ TradeOf(seen[1]).symbol # TradeOf(seen[2]).symbol
    /\ TradeOf(seen[1]).type # TradeOf(seen[2]).type
    /\ TradeOf(seen[1]).quantity # TradeOf(seen[2]).quantity
    /\ TradeOf(seen[1]).unitPrice # TradeOf(seen[2]).unitPrice
    /\ data.activities = <<TradeOf(seen[1])>>

\* C4: a merge run over the unchanged directory, started from the output of
\* an earlier run over it, writes back the file it loaded: same records, same
\* order, nothing added.
C4_MergeIdempotent ==
    [][ (pc = "write" /\ merge /\ output_file.exists) => output_file' = output_file ]_vars

\* A second, merging run has ended after meeting documents already recorded.
C4_Witness ==
    /\ pc = "done" /\ merge /\ runs >= 2
    /\ Len(output_file.data.activities) >= 2
    /\ output_file.data = data
    /\ log = "duplicate"

\* A trade document whose identifier is in the ignore set.
HasIgnoredIdentifier(file) ==
    /\ IsTradeFile(file)
    /\ isin_regex(file.text).match
    /\ <<isin_regex(file.text).cc, isin_regex(file.text).rest>> \in ignoredsymbols

\* C5: a document whose identifier is in the ignore set adds no record, and
\* the run continues with the next document.
C5_IgnoredIsSkipped ==
    [][ (Handled /\ HasIgnoredIdentifier(Last(seen')))
        => (data' = data /\ pc' \in {"loop", "write"}) ]_vars

\* C6: every step of a run leaves the collection as it is or appends one
\* record at its end; the collection before the step is a prefix of the
\* collection after it.
C6_AppendOnly ==
    [][ (pc = "loop" \/ pc = "write") =>
          ( \/ data'.activities = data.activities
            \/ /\ Len(data'.activities) = Len(data.activities) + 1
               /\ SubSeq(data'.activities, 1, Len(data.activities)) = data.activities )
      ]_vars

\* A record has just been appended behind the records loaded in merge mode.
C6_Witness ==
    /\ InRun /\ merge /\ log = "Added"
    /\ StartCollection # <<>>
    /\ Len(data.activities) = Len(StartCollection) + 1
    /\ SubSeq(data.activities, 1, Len(StartCollection)) = StartCollection

\* An isoformat date that names a calendar instant.
IsValidTimestamp(date) ==
    /\ date[1] >= 1 /\ date[2] \in 1..12
    /\ date[3] >= 1 /\ date[3] <= DaysInMonth(date[2], date[1])
    /\ date[4] \in 0..23 /\ date[5] \in 0..59 /\ date[6] \in 0..59

\* C7 as stated: every record of the collection has quantity > 0,
\* unitPrice >= 0 and a valid timestamp.
C7_QuantityPositive ==
    \A i \in 1..Len(data.activities) :
        /\ data.activities[i].quantity > 0
        /\ data.activities[i].unitPrice >= 0
        /\ IsValidTimestamp(data.activities[i].date)

\* C7 amended: every record of the collection has quantity >= 0,
\* unitPrice >= 0 and a valid timestamp.
C7_QuantityNonNegative ==
    \A i \in 1..Len(data.activities) :
        /\ data.activities[i].quantity >= 0
        /\ data.activities[i].unitPrice >= 0
        /\ IsValidTimestamp(data.activities[i].date)

\* The record of a document that reads "Stück 0" has just been appended.
C7_Witness ==
    /\ InRun /\ log = "Added"
    /\ Last(seen).text.pieces.match /\ Last(seen).text.pieces.int = 0
    /\ Last(data.activities).quantity = 0

\* C8: a trade document without a match of the identifier pattern is reported
\* as "invalid isin" whatever its other fields are, leaves the collection
\* unchanged and does not end the loop: the loop goes on while files remain.
C8_MissingIdentifierSkipped ==
    [][ (Handled /\ IsTradeFile(Last(seen')) /\ ~isin_regex(Last(seen').text).match)
        => ( /\ data' = data
             /\ log' = "invalid isin"
             /\ pc' = IF Range(seen') = directory THEN "write" ELSE "loop" )
      ]_vars

\* A document with no identifier, no quantity and no price was handled first
\* and the next document was then processed and recorded.
C8_Witness ==
    /\ pc = "write" /\ Len(seen) = 2
    /\ IsTradeFile(seen[1]) /\ ~isin_regex(seen[1].text).match
    /\ ~pieces_regex(seen[1].text).match /\ ~price_regex(seen[1].text).match
    /\ log = "Added" /\ Last(data.activities) = TradeOf(seen[2])

\* C9: for every trade document handled whose identifier matches: with the
\* combined field present the date of its record is that date and time; with
\* only the date field present it is that date at 00:00:00; with neither,
\* parse_trade_data returns None for a missing date.  The collection holds a
\* record with that date for every such document that reached the duplicate
\* check.
C9_TimestampSelection ==
    \A i \in 1..Len(seen) :
      LET text == seen[i].text
          res == parse_trade_data(text)
          dt == date_time_regex(text)
          d == date_regex(text)
          expected == IF dt.match THEN <<dt.Y, dt.M, dt.D, dt.h, dt.m, dt.s>>
                      ELSE <<d.Y, d.M, d.D, 0, 0, 0>>
      IN (IsTradeFile(seen[i]) /\ isin_regex(text).match) =>
           /\ (~dt.match /\ ~d.match) => res = [kind |-> "None", reason |-> "missing date"]
           /\ (dt.match \/ d.match) => res.kind # "None"
           /\ res.kind = "trade" => res.trade.date = expected
           /\ (InRun /\ IsCandidate(seen[i])) => expected \in Dates(data.activities)

\* A document carrying both fields, with different days, has been recorded
\* under the date and time of the combined field.
C9_Witness ==
    /\ InRun /\ log = "Added"
    /\ date_time_regex(Last(seen).text).match /\ date_regex(Last(seen).text).match
    /\ date_time_regex(Last(seen).text).D # date_regex(Last(seen).text).D
    /\ Last(data.activities).date[3] = date_time_regex(Last(seen).text).D

\* One listing order of the directory, fixed per directory.
RECURSIVE ReferenceOrder(_)
ReferenceOrder(files) ==
    IF files = {} THEN <<>>
    ELSE LET file == CHOOSE f \in files : TRUE
         IN <<file>> \o ReferenceOrder(files \ {file})

\* C10 as stated: when the loop ends, the set of records is the one the
\* reference listing order gives, whatever order the files were listed in.
C10_SameRecordsInAnyOrder ==
    pc = "write" =>
        Range(data.activities) =
            Range(run_in_order(StartCollection, ReferenceOrder(directory)))

\* C10 amended: when the loop ends, the set of dates in the collection is the
\* one the reference listing order gives, whatever order the files were
\* listed in.
C10_SameDatesInAnyOrder ==
    pc = "write" =>
        Dates(data.activities) =
            Dates(run_in_order(StartCollection, ReferenceOrder(directory)))

\* The loop has ended with a record that the reference order does not give.
C10_Witness ==
    /\ pc = "write"
    /\ Range(data.activities) #
           Range(run_in_order(StartCollection, ReferenceOrder(directory)))

====
